---- MODULE Spec2Model ----
(***************************************************************************)
(* Session persistence and tab state of Pachi-hacker-Text-Editor.py.       *)
(*                                                                         *)
(* The state is the tab strip of HackerEditor (one EditorTab per tab: a    *)
(* path and a rich-text document), the session file SESSION_FILE, one user *)
(* file on disk, and the position of the process (not running, inside the  *)
(* Qt event loop, or in interpreter shutdown with the atexit handler       *)
(* pending).  There is one action per handler of the program.              *)
(***************************************************************************)
EXTENDS Naturals, Sequences, FiniteSets

VARIABLES
    pc,          \* "off" | "running" (app.exec_()) | "exiting" (atexit pending)
    tabs,        \* self.tabs: sequence of EditorTab [path, doc]
    cur,         \* self.tabs.currentIndex() + 1, 0 when there is no tab
    record,      \* SESSION_FILE: [exists, bytes]
    fs,          \* the user's file on disk, by path
    lastOp,      \* the handler that ran last, its dialog path and its outcome
    loadDone,    \* load_session has returned normally in this run
    loadCalls,   \* calls of load_session in this run
    exitSaves,   \* calls of auto_save_session by atexit in this run
    exitKind,    \* how the last run ended: "none" | "shutdown" | "abort" | "kill"
    saved,       \* history: the tabs at the last auto_save_session that completed
    steps        \* handlers run so far (bounded by MaxSteps)

vars == <<pc, tabs, cur, record, fs, lastOp, loadDone, loadCalls, exitSaves,
          exitKind, saved, steps>>

\* ------------------------------------------------------------------ bounds
MaxTabs == 2
MaxSteps == 7

\* ------------------------------------------------------------ value domains
None == "None"
Paths == {"/tmp/x.py"}
Texts == {"", "hello"}

\* A QTextEdit document: its plain text and whether the text is a bold span.
Docs == {[txt |-> t, bold |-> b] : t \in Texts, b \in BOOLEAN} \ {[txt |-> "", bold |-> TRUE]}

EmptyDoc == [txt |-> "", bold |-> FALSE]

\* QTextEdit.toHtml(): the document as markup.
toHtml(d) == IF d.bold THEN <<"<b>", d.txt, "</b>">> ELSE <<d.txt>>

\* QTextEdit.setHtml(html): the document the markup describes.
setHtml(h) ==
    IF Len(h) = 3 /\ h[1] = "<b>" /\ h[3] = "</b>"
    THEN [txt |-> h[2], bold |-> (h[2] # "")]
    ELSE [txt |-> h[1], bold |-> FALSE]

\* QTextEdit.setPlainText(txt): plain text, all formatting dropped.
setPlainText(t) == [txt |-> t, bold |-> FALSE]

\* QTextEdit.toPlainText()
toPlainText(d) == d.txt

\* EditorTab(): a new tab with no path and an empty document.
EmptyTab == [path |-> None, doc |-> EmptyDoc]

\* EditorTab(path, html=html) for html given: the document is set from html,
\* the file at path is not read.
EditorTab(path, html) == [path |-> path, doc |-> setHtml(html)]

\* ------------------------------------------------------------- session file
LBracket == [tok |-> "[", path |-> "", html |-> <<>>]
RBracket == [tok |-> "]", path |-> "", html |-> <<>>]

\* One {"path": ..., "html": ...} object of the JSON text; None is written null.
JsonObject(item) ==
    [tok |-> "{}",
     path |-> IF item.path = None THEN "null" ELSE item.path,
     html |-> item.html]

\* The dict a JSON object parses to; null is read back as None.
JsonDict(obj) ==
    [path |-> IF obj.path = "null" THEN None ELSE obj.path, html |-> obj.html]

RECURSIVE JsonObjects(_)
JsonObjects(data) ==
    IF data = <<>> THEN <<>>
    ELSE <<JsonObject(Head(data))>> \o JsonObjects(Tail(data))

RECURSIVE JsonDicts(_)
JsonDicts(objs) ==
    IF objs = <<>> THEN <<>>
    ELSE <<JsonDict(Head(objs))>> \o JsonDicts(Tail(objs))

\* json.dump(data, f): the complete text written for the list data.
JsonDump(data) == <<LBracket>> \o JsonObjects(data) \o <<RBracket>>

\* Whether json.load accepts the text: a complete list of objects.
JsonValid(bytes) ==
    /\ Len(bytes) >= 2
    /\ bytes[1] = LBracket
    /\ bytes[Len(bytes)] = RBracket
    /\ \A i \in 2..(Len(bytes) - 1) : bytes[i].tok = "{}"

\* json.load(f) on a text it accepts.
JsonLoad(bytes) == JsonDicts(SubSeq(bytes, 2, Len(bytes) - 1))

Missing == [exists |-> FALSE, bytes |-> <<>>]
File(bytes) == [exists |-> TRUE, bytes |-> bytes]

\* The list auto_save_session builds: one {path, html} per tab, in tab order.
TabItem(t) == [path |-> t.path, html |-> toHtml(t.doc)]
\* Mutant: the loop stops one tab short (range(self.tabs.count() - 1)).
RECURSIVE SessionData_DropLast(_)
SessionData_DropLast(t) ==
    IF Len(t) <= 1 THEN <<>>
    ELSE <<TabItem(Head(t))>> \o SessionData_DropLast(Tail(t))

RECURSIVE SessionData(_)
SessionData(t) ==
    IF t = <<>> THEN <<>> ELSE <<TabItem(Head(t))>> \o SessionData(Tail(t))

\* The tabs load_session adds for the parsed list, in stored order.
ItemTab(item) == EditorTab(item.path, item.html)
\* Mutant: each tab is inserted at the front (insertTab(0, ...)).
RECURSIVE RestoreTabs_Reversed(_)
RestoreTabs_Reversed(data) ==
    IF data = <<>> THEN <<>>
    ELSE RestoreTabs_Reversed(Tail(data)) \o <<ItemTab(Head(data))>>

RECURSIVE RestoreTabs(_)
RestoreTabs(data) ==
    IF data = <<>> THEN <<>> ELSE <<ItemTab(Head(data))>> \o RestoreTabs(Tail(data))

\* Mutant: load_session without its fallback to new_tab.
LoadFallback_None(t) == t

\* if self.tabs.count() == 0: self.new_tab()
LoadFallback(t) == IF Len(t) = 0 THEN <<EmptyTab>> ELSE t

\* load_session: the tabs after it, and whether it returned (ok) or raised.
LoadSession(rec) ==
    IF ~rec.exists THEN [ok |-> TRUE, tabs |-> LoadFallback(<<>>)]
    ELSE IF ~JsonValid(rec.bytes) THEN [ok |-> FALSE, tabs |-> <<>>]
    ELSE [ok |-> TRUE, tabs |-> LoadFallback(RestoreTabs(JsonLoad(rec.bytes)))]

\* ------------------------------------------------------------------- files
Absent == [kind |-> "absent", txt |-> ""]
TextFile(t) == [kind |-> "text", txt |-> t]
Binary == [kind |-> "binary", txt |-> ""]
FileStates == {Absent, Binary} \cup {TextFile(t) : t \in Texts}

OpRec(name, path, outcome) == [op |-> name, path |-> path, outcome |-> outcome]

\* What an exception that escapes a slot does to the process: PyQt5 from 5.5
\* on aborts (qFatal), earlier builds print the traceback and go on.
SlotExceptionOutcomes == {"off", "running"}

Init ==
    /\ pc = "off"
    /\ tabs = <<>>
    /\ cur = 0
    /\ record = Missing
    /\ fs \in [Paths -> FileStates]
    /\ lastOp = OpRec("none", "", "ok")
    /\ loadDone = FALSE
    /\ loadCalls = 0
    /\ exitSaves = 0
    /\ exitKind = "none"
    /\ saved = <<>>
    /\ steps = 0

\* __main__ and HackerEditor.__init__: the timer is started and the atexit
\* handler registered, then load_session runs; an exception it raises leaves
\* __init__ and __main__ uncaught, and the interpreter shuts down.
Launch ==
    /\ pc = "off"
    /\ steps < MaxSteps
    /\ LET r == LoadSession(record) IN
        /\ tabs' = r.tabs
        /\ cur' = IF Len(r.tabs) = 0 THEN 0 ELSE 1
        /\ pc' = IF r.ok THEN "running" ELSE "exiting"
        /\ loadDone' = r.ok
        /\ lastOp' = OpRec("load_session", "", IF r.ok THEN "ok" ELSE "parse_error")
    /\ loadCalls' = 1
    /\ exitSaves' = 0
    /\ exitKind' = "none"
    /\ steps' = steps + 1
    /\ UNCHANGED <<record, fs, saved>>

\* The session file after auto_save_session's open(SESSION_FILE, "w") and
\* json.dump: written whole; left as it was when open raises; truncated to
\* the first n tokens when the write raises or the process is killed in it.
SaveResult(rec, full, out, n) ==
    CASE out = "ok" -> File(full)
      [] out = "open_error" -> rec
      [] OTHER -> File(SubSeq(full, 1, n))

SaveOutcomes == {"ok", "open_error", "write_error", "killed"}

\* The truncation points an outcome can leave behind.
Cuts(full, out) ==
    IF out \in {"write_error", "killed"} THEN 0..(Len(full) - 1) ELSE {0}

\* self.timer.timeout -> auto_save_session, inside the event loop.
timer_timeout ==
    /\ pc = "running"
    /\ steps < MaxSteps
    /\ LET full == JsonDump(SessionData(tabs)) IN
       \E out \in SaveOutcomes : \E n \in Cuts(full, out) :
        /\ record' = SaveResult(record, full, out, n)
        /\ lastOp' = OpRec("timer_save", "", out)
        /\ saved' = IF out = "ok" THEN tabs ELSE saved
        /\ \/ /\ out = "ok"
              /\ pc' = "running"
              /\ exitKind' = exitKind
           \/ /\ out \in {"open_error", "write_error"}
              /\ pc' \in SlotExceptionOutcomes
              /\ exitKind' = IF pc' = "off" THEN "abort" ELSE exitKind
           \/ /\ out = "killed"
              /\ pc' = "off"
              /\ exitKind' = "kill"
    /\ steps' = steps + 1
    /\ UNCHANGED <<tabs, cur, fs, loadDone, loadCalls, exitSaves>>

\* The window is closed: app.exec_() returns and sys.exit() starts the
\* interpreter's shutdown.
close_window ==
    /\ pc = "running"
    /\ steps < MaxSteps
    /\ pc' = "exiting"
    /\ lastOp' = OpRec("close_window", "", "ok")
    /\ steps' = steps + 1
    /\ UNCHANGED <<tabs, cur, record, fs, loadDone, loadCalls, exitSaves, exitKind, saved>>

\* Mutant: no handler is registered with atexit; the process just exits.
atexit_run_NoSave ==
    /\ pc = "exiting"
    /\ steps < MaxSteps
    /\ pc' = "off"
    /\ exitKind' = "shutdown"
    /\ lastOp' = OpRec("exit", "", "ok")
    /\ steps' = steps + 1
    /\ UNCHANGED <<tabs, cur, record, fs, loadDone, loadCalls, exitSaves, saved>>

\* The handler given to atexit.register: auto_save_session at shutdown.  An
\* exception it raises is printed by atexit and the process exits.
atexit_run ==
    /\ pc = "exiting"
    /\ steps < MaxSteps
    /\ LET full == JsonDump(SessionData(tabs)) IN
       \E out \in SaveOutcomes : \E n \in Cuts(full, out) :
        /\ record' = SaveResult(record, full, out, n)
        /\ lastOp' = OpRec("exit_save", "", out)
        /\ saved' = IF out = "ok" THEN tabs ELSE saved
        /\ exitKind' = IF out = "killed" THEN "kill" ELSE "shutdown"
    /\ pc' = "off"
    /\ exitSaves' = exitSaves + 1
    /\ steps' = steps + 1
    /\ UNCHANGED <<tabs, cur, fs, loadDone, loadCalls>>

\* What an exception escaping a slot leaves of the process state.
SlotRaise(out) ==
    /\ pc' \in SlotExceptionOutcomes
    /\ exitKind' = IF pc' = "off" THEN "abort" ELSE exitKind
    /\ lastOp' = out

\* new_tab: a new EditorTab() is added at the end and made current.
NewTabTabs(t) == Append(t, EmptyTab)

new_tab ==
    /\ pc = "running"
    /\ steps < MaxSteps
    /\ Len(tabs) < MaxTabs
    /\ tabs' = NewTabTabs(tabs)
    /\ cur' = Len(tabs')
    /\ lastOp' = OpRec("new_tab", "", "ok")
    /\ steps' = steps + 1
    /\ UNCHANGED <<pc, record, fs, loadDone, loadCalls, exitSaves, exitKind, saved>>

\* The user clicks another tab of the QTabWidget.
select_tab ==
    /\ pc = "running"
    /\ steps < MaxSteps
    /\ \E i \in 1..Len(tabs) :
        /\ i # cur
        /\ cur' = i
    /\ lastOp' = OpRec("select_tab", "", "ok")
    /\ steps' = steps + 1
    /\ UNCHANGED <<pc, tabs, record, fs, loadDone, loadCalls, exitSaves, exitKind, saved>>

\* Typing and the editing handlers (undo, redo, find_replace, toggle_bold,
\* change_size, align): the current tab's document changes, nothing else.
edit ==
    /\ pc = "running"
    /\ steps < MaxSteps
    /\ \E d \in Docs :
        /\ d # tabs[cur].doc
        /\ tabs' = [tabs EXCEPT ![cur].doc = d]
    /\ lastOp' = OpRec("edit", "", "ok")
    /\ steps' = steps + 1
    /\ UNCHANGED <<pc, cur, record, fs, loadDone, loadCalls, exitSaves, exitKind, saved>>

\* if not path: return
Cancelled(path) == path = ""

\* What QFileDialog.getOpenFileName can return: "" or an existing file.
OpenDialogResults == {""} \cup {p \in Paths : fs[p].kind # "absent"}

\* What QFileDialog.getSaveFileName can return: "" or any path.
SaveDialogResults == {""} \cup Paths

\* Mutant: the file is opened in a new tab, EditorTab(path), added at the end.
OpenTabs_NewTab(t, c, path, txt) ==
    IF Cancelled(path) THEN t
    ELSE Append(t, [path |-> path, doc |-> setPlainText(txt)])

\* open_txt_py on the tabs: the current tab takes the file's text and path.
OpenTabs(t, c, path, txt) ==
    IF Cancelled(path) THEN t
    ELSE [t EXCEPT ![c] = [path |-> path, doc |-> setPlainText(txt)]]

open_txt_py ==
    /\ pc = "running"
    /\ steps < MaxSteps
    /\ \E path \in OpenDialogResults :
        \/ /\ Cancelled(path)
           /\ tabs' = OpenTabs(tabs, cur, path, "")
           /\ lastOp' = OpRec("open_txt_py", path, "cancel")
           /\ UNCHANGED <<pc, exitKind>>
        \/ /\ ~Cancelled(path)
           /\ fs[path].kind = "text"
           /\ tabs' = OpenTabs(tabs, cur, path, fs[path].txt)
           /\ lastOp' = OpRec("open_txt_py", path, "ok")
           /\ UNCHANGED <<pc, exitKind>>
        \/ /\ ~Cancelled(path)
           /\ fs[path].kind = "binary"
           /\ SlotRaise(OpRec("open_txt_py", path, "decode_error"))
           /\ UNCHANGED tabs
    /\ steps' = steps + 1
    /\ UNCHANGED <<cur, record, fs, loadDone, loadCalls, exitSaves, saved>>

\* Mutant: the early return on an empty path is missing.
SetPath_NoGuard(t, c, path) == [t EXCEPT ![c].path = path]

\* save_txt, save_odt on the tabs: the current tab takes the chosen path.
SetPath(t, c, path) ==
    IF Cancelled(path) THEN t ELSE [t EXCEPT ![c].path = path]

save_txt ==
    /\ pc = "running"
    /\ steps < MaxSteps
    /\ \E path \in SaveDialogResults :
        \/ /\ Cancelled(path)
           /\ tabs' = SetPath(tabs, cur, path)
           /\ lastOp' = OpRec("save_txt", path, "cancel")
           /\ UNCHANGED <<pc, fs, exitKind>>
        \/ /\ ~Cancelled(path)
           /\ fs' = [fs EXCEPT ![path] = TextFile(toPlainText(tabs[cur].doc))]
           /\ tabs' = SetPath(tabs, cur, path)
           /\ lastOp' = OpRec("save_txt", path, "ok")
           /\ UNCHANGED <<pc, exitKind>>
        \/ /\ ~Cancelled(path)
           /\ SlotRaise(OpRec("save_txt", path, "open_error"))
           /\ UNCHANGED <<tabs, fs>>
    /\ steps' = steps + 1
    /\ UNCHANGED <<cur, record, loadDone, loadCalls, exitSaves, saved>>

\* save_odt: QTextDocumentWriter.write returns False when it fails, and the
\* tab's path is set either way.
save_odt ==
    /\ pc = "running"
    /\ steps < MaxSteps
    /\ \E path \in SaveDialogResults :
        \/ /\ Cancelled(path)
           /\ lastOp' = OpRec("save_odt", path, "cancel")
           /\ UNCHANGED fs
        \/ /\ ~Cancelled(path)
           /\ \E out \in {"ok", "write_failed"} :
               /\ fs' = IF out = "ok" THEN [fs EXCEPT ![path] = Binary] ELSE fs
               /\ lastOp' = OpRec("save_odt", path, out)
        /\ tabs' = SetPath(tabs, cur, path)
    /\ steps' = steps + 1
    /\ UNCHANGED <<pc, cur, record, loadDone, loadCalls, exitSaves, exitKind, saved>>

\* export_pdf: the document is printed to the chosen file; no tab changes.
ExportTabs(t, c, path) == t

export_pdf ==
    /\ pc = "running"
    /\ steps < MaxSteps
    /\ \E path \in SaveDialogResults :
        \/ /\ Cancelled(path)
           /\ lastOp' = OpRec("export_pdf", path, "cancel")
           /\ UNCHANGED fs
        \/ /\ ~Cancelled(path)
           /\ \E out \in {"ok", "write_failed"} :
               /\ fs' = IF out = "ok" THEN [fs EXCEPT ![path] = Binary] ELSE fs
               /\ lastOp' = OpRec("export_pdf", path, out)
        /\ tabs' = ExportTabs(tabs, cur, path)
    /\ steps' = steps + 1
    /\ UNCHANGED <<pc, cur, record, loadDone, loadCalls, exitSaves, exitKind, saved>>

Next ==
    \/ Launch
    \/ timer_timeout
    \/ close_window
    \/ atexit_run
    \/ new_tab
    \/ select_tab
    \/ edit
    \/ open_txt_py
    \/ save_txt
    \/ save_odt
    \/ export_pdf

Spec == Init /\ [][Next]_vars

\* ------------------------------------------------------------------ claims
SaveOps == {"timer_save", "exit_save"}
DialogOps == {"open_txt_py", "save_txt", "save_odt", "export_pdf"}

\* Two sessions show the same Documents: same number, and at each position
\* the same path and the same content string.
SameSession(a, b) ==
    /\ Len(a) = Len(b)
    /\ \A i \in 1..Len(a) :
        /\ a[i].path = b[i].path
        /\ toHtml(a[i].doc) = toHtml(b[i].doc)

\* The session file is a complete list with one object per tab of t, in
\* order, each holding that tab's path (null for none) and markup.
RecordHolds(t) ==
    /\ record.exists
    /\ Len(record.bytes) = Len(t) + 2
    /\ record.bytes[1] = LBracket
    /\ record.bytes[Len(t) + 2] = RBracket
    /\ \A i \in 1..Len(t) :
        record.bytes[i + 1] =
            [tok |-> "{}",
             path |-> IF t[i].path = None THEN "null" ELSE t[i].path,
             html |-> toHtml(t[i].doc)]

\* A load that read an existing, parsable record.
LoadedRecord ==
    /\ lastOp.op = "load_session"
    /\ lastOp.outcome = "ok"
    /\ record.exists

C2_CorruptTolerantLoad ==
    (lastOp.op = "load_session" /\ record.exists /\ ~JsonValid(record.bytes))
        => (lastOp.outcome = "ok" /\ pc = "running" /\ tabs = <<EmptyTab>>)

\* C3: a periodic save whose write fails does not let the failure out of the
\* handler: the application keeps running.
C3_SaveFailureNonFatal ==
    (lastOp.op = "timer_save" /\ lastOp.outcome \in {"open_error", "write_error"})
        => (pc = "running" /\ exitKind # "abort")

\* C4: the session file is at every moment a complete snapshot, never a
\* truncated, empty or partly written record.
C4_AtomicSave == record.exists => JsonValid(record.bytes)

\* C5: right after a save that completed, the session file holds exactly the
\* open Documents in tab order, one {path, content} entry per tab.
C5_SnapshotExact ==
    (lastOp.op \in SaveOps /\ lastOp.outcome = "ok") => RecordHolds(tabs)

C5_Witness ==
    /\ lastOp.op = "timer_save"
    /\ lastOp.outcome = "ok"
    /\ Len(tabs) = 2
    /\ tabs[1].path # None
    /\ tabs[2].doc.bold

\* C6: load runs exactly once per run, and no save writes the session file
\* before that run's load has completed.
C6_LoadBeforeSave ==
    /\ pc # "off" => loadCalls = 1
    /\ lastOp.op \in SaveOps => loadDone

C8_NonEmptySession ==
    /\ pc = "running" => (Len(tabs) >= 1 /\ cur \in 1..Len(tabs))
    /\ (lastOp.op = "load_session"
          /\ (~record.exists \/ record.bytes = <<LBracket, RBracket>>))
        => (pc = "running" /\ tabs = <<EmptyTab>>)

C8_Witness ==
    /\ lastOp.op = "load_session"
    /\ record.exists
    /\ record.bytes = <<LBracket, RBracket>>
    /\ tabs = <<EmptyTab>>

OpenedFile == lastOp'.op = "open_txt_py" /\ lastOp'.outcome = "ok"

\* C9 as stated: opening a file adds one Document with the file's path and
\* plain text, and the Documents already open keep their path and content.
C9_OpenCreates_AsClaimed ==
    [][OpenedFile =>
        /\ Len(tabs') = Len(tabs) + 1
        /\ tabs'[Len(tabs')].path = lastOp'.path
        /\ toPlainText(tabs'[Len(tabs')].doc) = fs[lastOp'.path].txt
        /\ \A i \in 1..Len(tabs) : tabs'[i] = tabs[i]]_vars

\* C9 amended: opening a file creates no Document: the current Document
\* takes the file's path and its plain, unformatted text, the number of
\* Documents and the current tab stay, every other Document is unchanged.
C9_OpenReplacesCurrent ==
    [][OpenedFile =>
        /\ Len(tabs') = Len(tabs)
        /\ cur' = cur
        /\ tabs'[cur].path = lastOp'.path
        /\ tabs'[cur].doc = [txt |-> fs[lastOp'.path].txt, bold |-> FALSE]
        /\ \A i \in 1..Len(tabs) : i # cur => tabs'[i] = tabs[i]]_vars

C9_Witness ==
    /\ lastOp.op = "open_txt_py"
    /\ lastOp.outcome = "ok"
    /\ Len(tabs) = 2
    /\ cur = 2
    /\ tabs[2] = [path |-> lastOp.path, doc |-> [txt |-> "hello", bold |-> FALSE]]
    /\ tabs[1].doc.bold

\* C10: a dialog that returns an empty path leaves the tabs, the current
\* tab and the session file as they were, and export_pdf never changes a
\* Document's path.
C10_CancelChangesNothing ==
    [][/\ (lastOp'.op \in DialogOps /\ lastOp'.path = "")
            => UNCHANGED <<tabs, cur, record>>
       /\ lastOp'.op = "export_pdf"
            => /\ Len(tabs') = Len(tabs)
               /\ \A i \in 1..Len(tabs) : tabs'[i].path = tabs[i].path]_vars

C10_Witness ==
    /\ lastOp.op = "save_txt"
    /\ lastOp.path = ""
    /\ Len(tabs) = 2
    /\ tabs[cur].path = None
    /\ record.exists
====
